---- MODULE Spec2Model ----
(***************************************************************************)
(* A model of the A2A protocol client (src/a2a-client.ts) and of the MCP   *)
(* tool handler that consumes its streams (src/index.ts).                  *)
(*                                                                         *)
(* Text is modelled as a sequence of characters.  The characters of the    *)
(* SSE framing ("d","a","t",":"," ","\r","\n") are modelled one by one, so *)
(* that a read chunk may end anywhere inside the "data: " prefix or inside *)
(* a blank-line delimiter.  A JSON text is modelled as ONE character, a    *)
(* token that stands for the whole text (see JsonValue); the decoder never *)
(* looks inside a JSON text except through JSON.parse.                     *)
(***************************************************************************)
EXTENDS Integers, Sequences, FiniteSets, TLC

(***************************************************************************)
(* Bounds of the model.                                                    *)
(***************************************************************************)
\* Largest number of segments an agent's event stream is built from.
MaxSegments == 3
\* Largest explicit maxUpdates argument of a2a_send_task_subscribe (0..MaxUpdates).
MaxUpdates == 1
\* Number of unary calls a behaviour of the client issues.
MaxCalls == 2
\* reader.read() delivers 1..MaxChunk characters, or all that is left.
MaxChunk == 2

\* Largest number of entries of A2A_ENDPOINT_URLS.
MaxEndpoints == 2
\* Number of tool calls a behaviour of the server handles.
MaxToolCalls == 2
\* Largest value of the clock (milliseconds since the server started).
MaxClock == 1
\* Largest number of characters of a URL passed to the constructor.
MaxUrlLen == 4
\* Largest number of segments of each of two concurrent event streams.
MaxConcurrentSegments == 1

\* The default of maxUpdates when the argument is omitted.
DefaultMaxUpdates == 10

(***************************************************************************)
(* JSON texts and JSON.parse.                                              *)
(***************************************************************************)
\* JSONRPCResponse: the value a JSON text token parses to.
\*   kind    "object" | "null" | "number"     (typeof / === null)
\*   jsonrpc the version tag, "none" when the member is missing
\*   id      the response id (0: an id no request of this process carries)
\*   hasResult / result   the member `result` (result "null": JSON null)
\*   errKind / error      the member `error` (see Envelope)
AgentError == [code |-> -32000, message |-> "agent failed"]
\* errKind: "none" (no `error` member), "null" ("error":null, falsy) or
\* "object" (a JSONRPCError, truthy).
Envelope(ver, id, hasRes, res, errKind) ==
    [kind |-> "object", jsonrpc |-> ver, id |-> id,
     hasResult |-> hasRes, result |-> res, errKind |-> errKind, error |-> AgentError]
NonObject(k) ==
    [kind |-> k, jsonrpc |-> "none", id |-> 0,
     hasResult |-> FALSE, result |-> "undefined", errKind |-> "none", error |-> AgentError]

\* The JSON texts of the model, one token each:
\*  "R1"  {"jsonrpc":"2.0","id":1,"result":<u1>}           u1: a non-final event
\*  "R2"  {"jsonrpc":"2.0","id":0,"result":<u2>}           u2: a non-final event
\*  "RF"  {"jsonrpc":"2.0","id":1,"result":<uF>}           uF: an event with final:true
\*  "RN"  {"jsonrpc":"2.0","id":1,"result":null}
\*  "E"   {"jsonrpc":"2.0","id":1,"error":{"code":-32000,"message":"agent failed"}}
\*  "EB"  as "E", with "result":<u1> as well
\*  "EN"  {"jsonrpc":"2.0","id":1,"error":null,"result":<u2>}
\*  "J0"  {"jsonrpc":"2.0","id":1}                         neither result nor error
\*  "V"   {"jsonrpc":"1.0","id":1,"result":<u1>}           wrong version tag
\*  "M"   {"id":1,"result":<u2>}                           version tag missing
\*  "ME"  {"id":1,"error":{...},"result":<u2>}             version tag missing, with an error
\*  "N"   null
\*  "7"   7
\* Any other character sequence (such as the cut-off text "{") is not JSON.
JsonTexts == {"R1", "R2", "RF", "RN", "E", "EB", "EN", "J0", "V", "M", "ME", "N", "7"}
JsonValue(t) ==
    CASE t = "R1" -> Envelope("2.0", 1, TRUE, "u1", "none")
      [] t = "R2" -> Envelope("2.0", 0, TRUE, "u2", "none")
      [] t = "RF" -> Envelope("2.0", 1, TRUE, "uF", "none")
      [] t = "RN" -> Envelope("2.0", 1, TRUE, "null", "none")
      [] t = "E"  -> Envelope("2.0", 1, FALSE, "undefined", "object")
      [] t = "EB" -> Envelope("2.0", 1, TRUE, "u1", "object")
      [] t = "EN" -> Envelope("2.0", 1, TRUE, "u2", "null")
      [] t = "J0" -> Envelope("2.0", 1, FALSE, "undefined", "none")
      [] t = "V"  -> Envelope("1.0", 1, TRUE, "u1", "none")
      [] t = "M"  -> Envelope("none", 1, TRUE, "u2", "none")
      [] t = "ME" -> Envelope("none", 1, TRUE, "u2", "object")
      [] t = "N"  -> NonObject("null")
      [] t = "7"  -> NonObject("number")

\* White space: what String.prototype.trim strips and JSON.parse skips.
IsSpace(c) == c \in {" ", "\n", "\r", "\t"}

RECURSIVE TrimLeft(_)
TrimLeft(s) == IF s # <<>> /\ IsSpace(Head(s)) THEN TrimLeft(Tail(s)) ELSE s
RECURSIVE TrimRight(_)
TrimRight(s) ==
    IF s # <<>> /\ IsSpace(s[Len(s)]) THEN TrimRight(SubSeq(s, 1, Len(s) - 1)) ELSE s
\* String.prototype.trim
Trim(s) == TrimRight(TrimLeft(s))

\* JSON.parse: [ok |-> TRUE, value |-> v], or [ok |-> FALSE] for a SyntaxError.
\* A text is one JSON value with optional white space around it; anything
\* else ("" , garbage, two values in a row) is a SyntaxError.
JSONParse(text) ==
    LET s == Trim(text)
    IN  IF Len(s) = 1 /\ s[1] \in JsonTexts
        THEN [ok |-> TRUE, value |-> JsonValue(s[1])]
        ELSE [ok |-> FALSE, value |-> NonObject("undefined")]

(***************************************************************************)
(* Outcomes of a call: a returned value or a thrown Error.                 *)
(***************************************************************************)
\* An Error: its kind, and what its message is built from.
Err(name, message, code, status, body) ==
    [name |-> name, message |-> message, code |-> code, status |-> status, body |-> body]
\* new Error(`${error.message} (${error.code})`)
RpcError(e) == Err("RpcError", e.message, e.code, 0, <<>>)
\* new Error(`HTTP error ${status}: ${statusText} - ${responseBody}`)
HttpError(status, body) == Err("HttpError", "HTTP error", 0, status, body)
\* new Error("Invalid JSON-RPC response structure")
InvalidStructure == Err("InvalidStructure", "Invalid JSON-RPC response structure", 0, 0, <<>>)
\* what JSON.parse throws
SyntaxError == Err("SyntaxError", "Unexpected token", 0, 0, <<>>)
\* reading a property of null
TypeError == Err("TypeError", "Cannot read properties of null", 0, 0, <<>>)
\* new Error(`Network error: ...`)
NetworkError == Err("NetworkError", "Network error", 0, 0, <<>>)
NoErr == Err("none", "", 0, 0, <<>>)

Returned(v) == [kind |-> "returned", value |-> v, error |-> NoErr]
Threw(e) == [kind |-> "threw", value |-> "undefined", error |-> e]
Pending == [kind |-> "pending", value |-> "undefined", error |-> NoErr]

\* response.ok
IsOk(status) == status \in 200..299

(***************************************************************************)
(* _handleJsonResponse: unary responses.                                   *)
(***************************************************************************)
\* The inner try block of the non-success branch: what it throws, if anything.
ParseErrorBody(body) ==
    LET p == JSONParse(body)
    IN  IF ~p.ok THEN Threw(SyntaxError)
        ELSE IF p.value.kind = "null" THEN Threw(TypeError)
        ELSE IF p.value.errKind = "object" THEN Threw(RpcError(p.value.error))
        ELSE Returned("undefined")

\* The non-success branch: the inner catch swallows whatever the inner try
\* threw (the embedded error as well as a parse error), and the throw of
\* the generic HTTP error that follows the try statement is reached either
\* way.
HandleHttpError(status, body) ==
    LET inner == ParseErrorBody(body)
    IN  IF inner.kind = "threw"
        THEN Threw(HttpError(status, body))
        ELSE Threw(HttpError(status, body))

\* HandleOkBody that returns a result before it looks for an error.
HandleOkBody_ResultFirst(body) ==
    LET p == JSONParse(body)
    IN  IF ~p.ok THEN Threw(SyntaxError)
        ELSE IF p.value.kind # "object" \/ p.value.jsonrpc # "2.0"
        THEN Threw(InvalidStructure)
        ELSE IF p.value.hasResult THEN Returned(p.value.result)
        ELSE IF p.value.errKind = "object" THEN Threw(RpcError(p.value.error))
        ELSE Returned(p.value.result)
\* HandleOkBody that takes a falsy result (null) for a missing one.
HandleOkBody_FalsyResult(body) ==
    LET p == JSONParse(body)
    IN  IF ~p.ok THEN Threw(SyntaxError)
        ELSE IF p.value.kind # "object" \/ p.value.jsonrpc # "2.0"
        THEN Threw(InvalidStructure)
        ELSE IF p.value.errKind = "object" THEN Threw(RpcError(p.value.error))
        ELSE IF p.value.result \in {"null", "undefined"} THEN Threw(InvalidStructure)
        ELSE Returned(p.value.result)
\* The success branch.
HandleOkBody(body) ==
    LET p == JSONParse(body)
    IN  IF ~p.ok THEN Threw(SyntaxError)
        ELSE IF p.value.kind # "object" \/ p.value.jsonrpc # "2.0"
        THEN Threw(InvalidStructure)
        ELSE IF p.value.errKind = "object" THEN Threw(RpcError(p.value.error))
        ELSE Returned(p.value.result)

\* _handleJsonResponse; the outer catch logs and rethrows.
HandleJsonResponse(status, body) ==
    IF ~IsOk(status) THEN HandleHttpError(status, body) ELSE HandleOkBody(body)

(***************************************************************************)
(* _handleStreamingResponse: the SSE decoder.                              *)
(***************************************************************************)
DataPrefix == <<"d", "a", "t", "a", ":", " ">>

\* buffer.replace(/\r/g, "")
RemoveCR(s) == SelectSeq(s, LAMBDA c : c # "\r")

\* String.prototype.split("\n\n"): the pieces between the leftmost,
\* non-overlapping occurrences of the separator; a string without the
\* separator (the empty string too) is its own single piece.
\* SplitScan looks for the separator at index i; the piece being scanned
\* starts at index from.
RECURSIVE SplitScan(_, _, _)
SplitScan(s, i, from) ==
    IF i >= Len(s) THEN <<SubSeq(s, from, Len(s))>>
    ELSE IF s[i] = "\n" /\ s[i + 1] = "\n"
    THEN <<SubSeq(s, from, i - 1)>> \o SplitScan(s, i + 2, i + 2)
    ELSE SplitScan(s, i + 1, from)
SplitBlank(s) == SplitScan(s, 1, 1)

\* const lines = buffer.replace(/\r/g, "").split("\n\n"), with buffer
\* already holding the chunk just read.
SplitLines(buf) == SplitBlank(RemoveCR(buf))

\* CarryOver without the carry-over: the buffer restarts empty after
\* every chunk.
CarryOver_Dropped(pieces) == <<>>
\* buffer = lines.pop() || "": the last piece is kept as the carry-over.
CarryOver(pieces) == pieces[Len(pieces)]
\* Complete without the pop: the last piece is visited as a message too.
Complete_NoPop(pieces) == pieces
\* What is left in lines after the pop: the complete messages.
Complete(pieces) == SubSeq(pieces, 1, Len(pieces) - 1)

\* message.startsWith("data: ")
StartsWithData(message) ==
    Len(message) >= Len(DataPrefix) /\ SubSeq(message, 1, Len(DataPrefix)) = DataPrefix

\* message.substring("data: ".length).trim()
DataLine(message) == Trim(SubSeq(message, Len(DataPrefix) + 1, Len(message)))

\* What one step of the decoder does with a message:
\*   act "yield" (value: the result), "throw" (error), or "next" (go on to
\*   the next message), and the lines it logs.
Act(act, value, error, logged) ==
    [act |-> act, value |-> value, error |-> error, logged |-> logged]

\* TryDataLine without the check of the version tag.
TryDataLine_AnyObject(dataLine) ==
    LET p == JSONParse(dataLine)
    IN  IF ~p.ok THEN Act("throw", "undefined", SyntaxError, <<>>)
        ELSE IF p.value.kind # "object"
        THEN Act("next", "undefined", NoErr, <<"invalid structure">>)
        ELSE IF p.value.errKind = "object"
        THEN Act("throw", "undefined", RpcError(p.value.error), <<"error in stream">>)
        ELSE IF p.value.hasResult
        THEN Act("yield", p.value.result, NoErr, <<>>)
        ELSE Act("next", "undefined", NoErr, <<"neither result nor error">>)
\* The body of the try block at the data line: JSON.parse, the structure
\* check, and the error / result / neither branches.
TryDataLine(dataLine) ==
    LET p == JSONParse(dataLine)
    IN  IF ~p.ok THEN Act("throw", "undefined", SyntaxError, <<>>)
        ELSE IF p.value.kind # "object" \/ p.value.jsonrpc # "2.0"
        THEN Act("next", "undefined", NoErr, <<"invalid structure">>)
        ELSE IF p.value.errKind = "object"
        THEN Act("throw", "undefined", RpcError(p.value.error), <<"error in stream">>)
        ELSE IF p.value.hasResult
        THEN Act("yield", p.value.result, NoErr, <<>>)
        ELSE Act("next", "undefined", NoErr, <<"neither result nor error">>)

\* CatchDataLine without the catch: what the try block throws leaves the
\* loop.
CatchDataLine_Rethrow(a) == a
\* The catch clause of that try block: it catches everything the block
\* throws, the protocol error of an `error` frame included, logs it and
\* lets the loop go on.
CatchDataLine(a) ==
    IF a.act = "throw"
    THEN Act("next", "undefined", NoErr, a.logged \o <<"failed to parse">>)
    ELSE a

\* One iteration of `for (const message of lines)`.
HandleMessage(message) ==
    IF ~StartsWithData(message) THEN Act("next", "undefined", NoErr, <<>>)
    ELSE IF DataLine(message) = <<>> THEN Act("next", "undefined", NoErr, <<>>)
    ELSE CatchDataLine(TryDataLine(DataLine(message)))

(***************************************************************************)
(* The inputs: HTTP statuses, response bodies, event streams.              *)
(***************************************************************************)
Statuses == {200, 404, 500}

\* Bodies of unary responses: each JSON text, alone or with white space
\* around it, and texts that are not JSON.
UnaryBodies ==
    {<<t>> : t \in JsonTexts} \cup
    {<<>>, <<"{">>, <<"R1", "\n">>, <<" ", "E">>, <<"R1", "R2">>}

Methods == {"tasks/send", "tasks/get", "tasks/cancel"}

LF2 == <<"\n", "\n">>
CRLF2 == <<"\r", "\n", "\r", "\n">>
Frame(text, delimiter) == DataPrefix \o text \o delimiter

\* What an agent's event stream is built from: complete frames (a result,
\* a final result ended by CR LF CR LF, an error, and malformed ones: a
\* wrong version tag, a cut-off JSON text, a JSON number), a frame without
\* its blank line, and a lone line feed.
Segments ==
    { Frame(<<"R1">>, LF2), Frame(<<"RF">>, CRLF2), Frame(<<"E">>, LF2),
      Frame(<<"V">>, LF2), Frame(<<"{">>, LF2), Frame(<<"7">>, LF2),
      Frame(<<"R2">>, <<>>), <<"\n">> }

RECURSIVE Flatten(_)
Flatten(ss) == IF ss = <<>> THEN <<>> ELSE Head(ss) \o Flatten(Tail(ss))

Streams == {Flatten(ss) : ss \in UNION {[1..n -> Segments] : n \in 0..MaxSegments}}

\* The two streaming calls that are in flight at the same time.
CallIds == {1, 2}
\* What their event streams are built from: a result frame, a final
\* result frame ended by CR LF CR LF, and a frame without its blank line.
ConcurrentSegments ==
    { Frame(<<"R1">>, LF2), Frame(<<"RF">>, CRLF2), Frame(<<"R2">>, <<>>) }
ConcurrentStreams ==
    {Flatten(ss) : ss \in UNION {[1..n -> ConcurrentSegments] : n \in 0..MaxConcurrentSegments}}

\* The maxUpdates argument: a number, or omitted (the default).
MaxUpdatesArgs == (0..MaxUpdates) \cup {DefaultMaxUpdates}

\* The sizes of the chunk reader.read() may deliver when rest characters
\* of the body are still to come.
ChunkSizes(rest) == ((1..MaxChunk) \cup {rest}) \cap (1..rest)

\* event.final
IsFinal(event) == event = "uF"

(***************************************************************************)
(* Configuration: AgentConfig (src/config.ts).  A URL is modelled as one   *)
(* character; the text of A2A_ENDPOINT_URLS is a sequence of URLs, commas  *)
(* and spaces.                                                             *)
(***************************************************************************)
\* The entries an operator may list: a URL, or a URL after a space.
UrlEntries == {<<"a">>, <<" ", "b">>}
\* A2A_ENDPOINT_URL.
SingleUrls == {<<>>, <<"b">>}

RECURSIVE JoinComma(_)
JoinComma(items) ==
    IF items = <<>> THEN <<>>
    ELSE IF Len(items) = 1 THEN Head(items)
    ELSE Head(items) \o <<",">> \o JoinComma(Tail(items))

\* String.prototype.split(","): the pieces of s[from..] around each comma
\* at or after position i.
RECURSIVE SplitComma(_, _, _)
SplitComma(s, i, from) ==
    IF i > Len(s) THEN <<SubSeq(s, from, Len(s))>>
    ELSE IF s[i] = ","
    THEN <<SubSeq(s, from, i - 1)>> \o SplitComma(s, i + 1, i + 1)
    ELSE SplitComma(s, i + 1, from)

\* randomUUID() of src/config.ts: the n-th value it returns.
RandomUUID(n) == ToString(n)

\* loadEndpoints: the list of A2A_ENDPOINT_URLS when it is set and not
\* empty, each URL trimmed and given a fresh id; otherwise the single
\* endpoint of A2A_ENDPOINT_URL when that is set; otherwise nothing.
LoadEndpoints(list, single) ==
    IF list = <<>>
    THEN IF single # <<>> THEN <<[id |-> RandomUUID(1), url |-> single]>> ELSE <<>>
    ELSE LET parts == SplitComma(list, 1, 1)
         IN  [i \in 1..Len(parts) |-> [id |-> RandomUUID(i), url |-> Trim(parts[i])]]

\* getEndpoints
GetEndpoints(eps) == eps

(***************************************************************************)
(* The constructor (src/a2a-client.ts).  A URL is a sequence of            *)
(* characters; "h" stands for any character that is not a slash.           *)
(***************************************************************************)
UrlChars == {"h", ":", "/"}
\* The URL strings new A2AClient(baseUrl) may be given.
UrlStrings == UNION {[1..n -> UrlChars] : n \in 0..MaxUrlLen}
\* baseUrl.endsWith("/")
EndsWithSlash(url) == Len(url) > 0 /\ url[Len(url)] = "/"

\* baseUrl.endsWith("/") ? baseUrl.slice(0, -1) : baseUrl
NormalizeBaseUrl(url) ==
    IF EndsWithSlash(url) THEN SubSeq(url, 1, Len(url) - 1) ELSE url

(***************************************************************************)
(* agentCard and supports (src/a2a-client.ts).                             *)
(***************************************************************************)
WellKnownPath == "/.well-known/agent.json"
AgentCardPath == "/agent-card"

\* The JSON texts of an agent card: K1 {capabilities: {streaming: true,
\* pushNotifications: false}}, KP {capabilities: {pushNotifications: true}},
\* K0 (no capabilities member).
CardTexts == {"K1", "KP", "K0"}
Card(hasCaps, streaming, push) ==
    [kind |-> "object", hasCaps |-> hasCaps, streaming |-> streaming,
     pushNotifications |-> push]
CardValue(t) ==
    CASE t = "K1" -> Card(TRUE, TRUE, FALSE)
      [] t = "KP" -> Card(TRUE, FALSE, TRUE)
      [] t = "K0" -> Card(FALSE, FALSE, FALSE)
      [] OTHER    -> [kind |-> "null", hasCaps |-> FALSE, streaming |-> FALSE,
                      pushNotifications |-> FALSE]

\* A response to a GET, or the rejection of fetch.
NoResp == [net |-> "none", status |-> 0, body |-> <<>>]
NetFail == [net |-> "failed", status |-> 0, body |-> <<>>]
Resp(status, body) == [net |-> "ok", status |-> status, body |-> body]
\* The bodies of a descriptor response: a card, null, a cut-off text, a page.
CardBodies == {<<"K1">>, <<"KP">>, <<"K0">>, <<"N">>, <<"{">>}
CardResps ==
    {NetFail, Resp(404, <<>>)} \cup {Resp(200, b) : b \in CardBodies}

\* response.json(): the token of the parsed value, or a rejection.
ResponseJson(body) ==
    LET t == Trim(body)
    IN  IF Len(t) = 1 /\ t[1] \in CardTexts \cup {"N"}
        THEN Returned(t[1])
        ELSE Threw(SyntaxError)

\* The error the outer catch of agentCard throws.
CardError == Err("Error", "Could not retrieve agent card", 0, 0, <<>>)

\* agentCard after the response to the well-known request.  A success
\* status returns response.json(): the promise is returned without await,
\* so its rejection passes by both catch blocks.  A rejection of fetch is
\* swallowed by the inner catch, and a non-success status falls out of the
\* if: both go on to the second request.
AfterWellKnown(r) ==
    IF r.net = "ok" /\ IsOk(r.status)
    THEN [fallback |-> FALSE, out |-> ResponseJson(r.body)]
    ELSE [fallback |-> TRUE, out |-> Pending]

\* agentCard after the response to the agent-card request: a rejection of
\* fetch and a non-success status reach the outer catch, which wraps them.
AfterFallback(r) ==
    IF r.net = "ok" /\ IsOk(r.status) THEN ResponseJson(r.body)
    ELSE Threw(CardError)

Capabilities == {"streaming", "pushNotifications", "other"}

\* supports that passes the failure of agentCard on.
Supports_Propagate(out, capability) ==
    IF out.kind = "threw" THEN out
    ELSE IF CardValue(out.value).kind = "null" THEN Threw(TypeError)
    ELSE IF capability = "streaming" /\ CardValue(out.value).streaming
    THEN Returned("true")
    ELSE IF capability = "pushNotifications" /\ CardValue(out.value).pushNotifications
    THEN Returned("true")
    ELSE Returned("false")
\* supports: the outcome of agentCard, read inside a try whose catch
\* returns false (a thrown agentCard, and card.capabilities of a null card).
Supports(out, capability) ==
    IF out.kind = "threw" THEN Returned("false")
    ELSE IF CardValue(out.value).kind = "null" THEN Returned("false")
    ELSE IF capability = "streaming" /\ CardValue(out.value).streaming
    THEN Returned("true")
    ELSE IF capability = "pushNotifications" /\ CardValue(out.value).pushNotifications
    THEN Returned("true")
    ELSE Returned("false")

(***************************************************************************)
(* The registry and the handlers (src/agent-manager.ts, src/index.ts).     *)
(***************************************************************************)
\* An argument that was not given.
Undefined == "undefined"
\* !x for a string argument
Falsy(x) == x \in {Undefined, ""}

PostTools ==
    {"a2a_send_task", "a2a_get_task", "a2a_cancel_task", "a2a_send_task_subscribe"}
SendTools == {"a2a_send_task", "a2a_send_task_subscribe"}
\* The agentId argument: missing, empty, the id of an endpoint, another id.
AgentIdArgs == {Undefined, "", "unknown"} \cup {RandomUUID(i) : i \in 1..MaxEndpoints}
\* The taskId argument.
TaskIdArgs == {Undefined, "", "t1"}
\* The JSON-RPC method of a tool.
MethodOf(tool) ==
    CASE tool = "a2a_send_task" -> "tasks/send"
      [] tool = "a2a_get_task" -> "tasks/get"
      [] tool = "a2a_cancel_task" -> "tasks/cancel"
      [] tool = "a2a_send_task_subscribe" -> "tasks/sendSubscribe"
      [] OTHER -> "none"

CallArgs(tool, agentId, taskId) == [tool |-> tool, agentId |-> agentId, taskId |-> taskId]
NoReq == [agent |-> "none", method |-> "none", id |-> 0, taskId |-> Undefined]

\* Map.prototype.set on the clients map.
MapSet(cl, id) ==
    IF \E i \in 1..Len(cl) : cl[i] = id THEN cl ELSE Append(cl, id)
\* getClientById: the client registered under id (a client is named by
\* the id of its endpoint), or undefined.
GetClientById(cl, id) ==
    IF \E i \in 1..Len(cl) : cl[i] = id THEN id ELSE Undefined
\* The last value of the map instead of the first.
FirstClient_Last(cl) == IF cl = <<>> THEN Undefined ELSE cl[Len(cl)]
\* getAllClients().values().next().value
FirstClient(cl) == IF cl = <<>> THEN Undefined ELSE cl[1]

\* SelectClient that falls back to the first client when the lookup fails.
SelectClient_Fallback(tool, cl, agentId) ==
    IF tool \in SendTools /\ Falsy(agentId) THEN FirstClient(cl)
    ELSE IF GetClientById(cl, agentId) = Undefined THEN FirstClient(cl)
    ELSE GetClientById(cl, agentId)
\* The client a tool call is routed to: a2a_send_task and
\* a2a_send_task_subscribe look a truthy agentId up and take the first
\* client otherwise; a2a_get_task and a2a_cancel_task look agentId up.
SelectClient(tool, cl, agentId) ==
    IF tool \in SendTools /\ Falsy(agentId) THEN FirstClient(cl)
    ELSE GetClientById(cl, agentId)

\* new Error(`No available agent with ID ...`), new Error(`No agent found
\* with ID ...`)
RoutingError(tool, agentId) ==
    IF tool \in SendTools
    THEN IF Falsy(agentId)
         THEN Err("Error", "No available agent", 0, 0, <<>>)
         ELSE Err("Error", "No available agent with ID", 0, 0, <<>>)
    ELSE Err("Error", "No agent found with ID", 0, 0, <<>>)
\* crypto.randomUUID() where crypto is not defined
ReferenceError == Err("ReferenceError", "crypto is not defined", 0, 0, <<>>)
\* new Error(`Failed to read agent card: ...`)
ReadCardError == Err("Error", "Failed to read agent card", 0, 0, <<>>)
\* new Error(`Resource not found: ...`)
ResourceNotFound == Err("Error", "Resource not found", 0, 0, <<>>)

\* TaskIdFor that takes the given taskId only.
TaskIdFor_Given(tool, taskId, has, fresh) ==
    [ok |-> TRUE, id |-> IF taskId = Undefined THEN "" ELSE taskId, drawn |-> 0]
\* The task id of the request: a2a_get_task and a2a_cancel_task pass
\* taskId on; the send tools evaluate taskId || crypto.randomUUID(), which
\* draws a UUID for a falsy taskId and throws where crypto is not defined.
TaskIdFor(tool, taskId, has, fresh) ==
    IF tool \notin SendTools \/ ~Falsy(taskId)
    THEN [ok |-> TRUE, id |-> taskId, drawn |-> 0]
    ELSE IF has THEN [ok |-> TRUE, id |-> ToString(fresh), drawn |-> 1]
    ELSE [ok |-> FALSE, id |-> Undefined, drawn |-> 0]

\* uri.split("/"): a URI is modelled by its pieces.
AgentCardUri(id) == <<"a2a:", "", "agent-card", id>>
TasksUri == <<"a2a:", "", "tasks">>
OtherUri == <<"a2a:", "", "other">>
\* uri.startsWith("a2a://agent-card/")
IsAgentCardUri(uri) == Len(uri) >= 4 /\ SubSeq(uri, 1, 3) = <<"a2a:", "", "agent-card">>
\* uri.split("/")[2]
UriAgentId(uri) == uri[3]

\* The answers to a tool's POST: a result, an error, a refusal.
ToolResps == {Resp(200, <<"R1">>), Resp(200, <<"E">>), Resp(404, <<"E">>)}
\* How the consumption of a stream may end for a2a_send_task_subscribe.
SubscribeOutcomes ==
    {Returned("updates"), Threw(NetworkError), Threw(HttpError(404, <<>>)), Threw(TypeError)}

\* A transport that is connected while initialize is still running.
Connected_Early(pc) == TRUE
\* runServer awaits initialize() and connects the transport after it: a
\* request reaches a handler only when runServer is past initialize.
Connected(pc) == pc = "serving"

\* The catch of initialize that probes the same endpoint again.
OnProbeFailure_Retry(idx, n) == idx
\* The catch of initialize that gives up the remaining endpoints.
OnProbeFailure_Abort(idx, n) == n + 1
\* The catch of initialize: it logs, and the loop goes on with the next
\* endpoint.
OnProbeFailure(idx, n) == idx + 1

\* The catch of the a2a_agent_info loop that leaves the loop.
InfoCatch_Abort(idx, n) == n
\* The catch of the a2a_agent_info loop pushes the error message; the for
\* loop stays at the client it is at (idx of n) and goes on from there.
InfoCatch(idx, n) == idx

\* The catch of the a2a_agent_info loop that drops the client.
OnCardFailure_Evict(cl, id) == SelectSeq(cl, LAMBDA c : c # id)
\* The catch of the a2a_agent_info loop: it records the error message in
\* the results; the client stays registered.
OnCardFailure(cl, id) == cl

(***************************************************************************)
(* State.                                                                  *)
(***************************************************************************)
VARIABLES
    nextReqId,   \* the number of the next value crypto.randomUUID() returns
    uPhase,      \* unary call: "idle" | "sent"
    uReq,        \* unary call: the last request, [method, id]
    uResp,       \* unary call: the last response, [status, body]
    uOut,        \* unary call: the outcome of the last call
    sPc,         \* streaming call: "idle" | "sent" | "read" | "loop" | "yield" | "closed"
    stream,      \* the characters of the response body
    pos,         \* how many of them reader.read() has delivered
    buffer,      \* the decoder's carry-over buffer
    lines,       \* the messages the for loop still has to visit
    yielding,    \* the value the generator is suspended on
    updates,     \* the handler's updates array
    count,       \* the handler's count
    maxUpdates,  \* the handler's maxUpdates
    acquired,    \* how many times getReader() was called
    released,    \* how many times reader.releaseLock() was called
    sOut,        \* how the generator ended
    hOut,        \* what the a2a_send_task_subscribe handler answered
    log,         \* the console lines of the decoder
    uFetches,    \* unary call: how many times the call has called fetch()
    sFetches,    \* streaming call: how many times the call has called fetch()
    hasRandomUUID, \* the runtime has crypto.randomUUID
    now,         \* Date.now()
    envUrls,     \* process.env.A2A_ENDPOINT_URLS (<<>> when unset)
    envUrl,      \* process.env.A2A_ENDPOINT_URL (<<>> when unset)
    configured,  \* the URLs the operator listed, in order
    endpoints,   \* AgentConfig.endpoints
    clients,     \* AgentManager.clients: the ids of the map, in insertion order
    rPc,         \* runServer: "init" (in initialize) | "serving"
    probeIdx,    \* initialize: the index of the endpoint the loop is at
    probeOk,     \* initialize: the outcome of each probe made so far
    cPc,         \* agentCard: "idle" | "wellknown" | "fallback" | "done"
    cFor,        \* agentCard: who called it
    cAgent,      \* agentCard: the endpoint id of the client (or "none")
    cCap,        \* supports: the capability asked for
    cReqs,       \* agentCard: the paths requested so far, in order
    cFirst,      \* agentCard: the response to the well-known request
    cSecond,     \* agentCard: the response to the agent-card request
    cOut,        \* agentCard: its outcome
    tPc,         \* the call being handled: "idle" | "sent" | "card" | "done"
    tCall,       \* its arguments, [tool, agentId, taskId]
    tUri,        \* resources/read: the pieces of request.params.uri
    tReq,        \* the POST it issued, [agent, method, id, taskId]
    tSent,       \* how many requests it has sent to agents
    tOut,        \* its result
    tReported,   \* the taskId its result reports
    infoIdx,     \* a2a_agent_info: the position of its loop over the clients
    results,     \* a2a_agent_info: its results array, [agentId, ok] (a card or an error)
    listed,      \* resources/list: the endpoint ids it advertised
    toolCalls,   \* how many calls the server has handled
    issued,      \* the ids of all the JSON-RPC requests issued, in order
    taskIds,     \* the task ids generated, in order
    kPc,         \* the client followed: "new" (not constructed) | "constructed"
    ctorArg,     \* the URL passed to its constructor
    baseUrl,     \* its baseUrl field
    calls,       \* concurrent streaming calls: for each call its generator's
                 \* [pc, stream, pos, lines, out, end, acquired, released]
    buffers      \* concurrent streaming calls: the `buffer` local of each

uVars == <<uPhase, uReq, uResp, uOut, uFetches>>
sVars == <<sPc, stream, pos, buffer, lines, yielding, updates, count, maxUpdates,
           acquired, released, sOut, hOut, log, sFetches>>
\* The runtime.
eVars == <<hasRandomUUID, now>>
\* The state of the server around the client.
\* The configuration and the registry.
rVars == <<envUrls, envUrl, configured, endpoints, clients, rPc, probeIdx, probeOk>>
\* A call of agentCard.
cVars == <<cPc, cFor, cAgent, cCap, cReqs, cFirst, cSecond, cOut>>
\* The call the server is handling, and what it has issued so far.
tVars == <<tPc, tCall, tUri, tReq, tSent, tOut, tReported, infoIdx, results, listed,
           toolCalls, issued, taskIds>>
\* The construction of the client.
kVars == <<kPc, ctorArg, baseUrl>>
\* The streaming calls in flight at the same time.
pVars == <<calls, buffers>>
xVars == <<eVars, rVars, cVars, tVars, kVars, pVars>>
vars == <<nextReqId, uVars, sVars, xVars>>

\* A streaming call whose request was sent and will be answered with body.
CallSent(body) ==
    [pc |-> "sent", stream |-> body, pos |-> 0, lines |-> <<>>, out |-> <<>>,
     end |-> Pending, acquired |-> 0, released |-> 0]
\* No streaming calls are followed side by side.
NoConcurrentCalls ==
    /\ calls = [k \in CallIds |-> [CallSent(<<>>) EXCEPT !.pc = "idle"]]
    /\ buffers = [k \in CallIds |-> <<>>]

\* The server after the module was loaded: the configuration is read,
\* the registry is empty, nothing was called.
ServerStart(list, single, items) ==
    /\ envUrls = list
    /\ envUrl = single
    /\ configured = items
    /\ endpoints = LoadEndpoints(list, single)
    /\ clients = <<>>
    /\ rPc = "init"
    /\ probeIdx = 1
    /\ probeOk = <<>>
    /\ cPc = "idle"
    /\ cFor = "none"
    /\ cAgent = "none"
    /\ cCap = "none"
    /\ cReqs = <<>>
    /\ cFirst = NoResp
    /\ cSecond = NoResp
    /\ cOut = Pending
    /\ tPc = "idle"
    /\ tCall = CallArgs("none", Undefined, Undefined)
    /\ tUri = <<>>
    /\ tReq = NoReq
    /\ tSent = 0
    /\ tOut = Pending
    /\ tReported = Undefined
    /\ infoIdx = 0
    /\ results = <<>>
    /\ listed = <<>>
    /\ toolCalls = 0
    /\ issued = <<>>
    /\ taskIds = <<>>

Init ==
    /\ nextReqId = 1
    /\ uPhase = "idle"
    /\ uReq = [method |-> "none", id |-> 0]
    /\ uResp = [status |-> 0, body |-> <<>>]
    /\ uOut = Pending
    /\ sPc = "idle"
    /\ stream = <<>>
    /\ pos = 0
    /\ buffer = <<>>
    /\ lines = <<>>
    /\ yielding = "undefined"
    /\ updates = <<>>
    /\ count = 0
    /\ maxUpdates = DefaultMaxUpdates
    /\ acquired = 0
    /\ released = 0
    /\ sOut = Pending
    /\ hOut = Pending
    /\ log = <<>>
    /\ uFetches = 0
    /\ sFetches = 0
    /\ hasRandomUUID = TRUE
    /\ now = 0
    /\ ServerStart(<<>>, <<>>, <<>>)
    /\ kPc = "constructed"
    /\ ctorArg = <<"h">>
    /\ baseUrl = NormalizeBaseUrl(ctorArg)
    /\ NoConcurrentCalls

(***************************************************************************)
(* Unary calls: sendTask, getTask, cancelTask.                             *)
(***************************************************************************)
\* _generateRequestId: crypto.randomUUID() where the runtime has it (fresh
\* stands for the value the next call of randomUUID returns), the clock
\* otherwise.
GenerateRequestId(has, fresh, clock) == IF has THEN fresh ELSE clock

\* The catch block of _makeHttpRequest that issues the request again.
CatchNetworkError_Retry(fetches) == fetches + 1
\* The catch block of _makeHttpRequest: it logs and throws; fetch() is not
\* called again.
CatchNetworkError(fetches) == fetches

\* _makeHttpRequest: a fresh id, one POST.
UnarySend ==
    /\ uPhase = "idle"
    /\ sPc = "idle"
    /\ nextReqId <= MaxCalls
    /\ \E method \in Methods :
          uReq' = [method |-> method,
                   id |-> GenerateRequestId(hasRandomUUID, nextReqId, now)]
    /\ nextReqId' = nextReqId + 1
    /\ uPhase' = "sent"
    /\ uOut' = Pending
    /\ uResp' = [status |-> 0, body |-> <<>>]
    /\ uFetches' = 1
    /\ UNCHANGED <<sVars, xVars>>

\* fetch rejects: _makeHttpRequest throws the network error.
UnaryNetworkError ==
    /\ uPhase = "sent"
    /\ uOut' = Threw(NetworkError)
    /\ uPhase' = "idle"
    /\ uFetches' = CatchNetworkError(uFetches)
    /\ UNCHANGED <<nextReqId, uReq, uResp, sVars, xVars>>

\* fetch resolves: _handleJsonResponse decides the outcome.
UnaryResponse ==
    /\ uPhase = "sent"
    /\ \E status \in Statuses, body \in UnaryBodies :
          /\ uResp' = [status |-> status, body |-> body]
          /\ uOut' = HandleJsonResponse(status, body)
    /\ uPhase' = "idle"
    /\ UNCHANGED <<nextReqId, uReq, uFetches, sVars, xVars>>

(***************************************************************************)
(* Streaming call: the a2a_send_task_subscribe handler consuming           *)
(* sendTaskSubscribe.                                                      *)
(***************************************************************************)
\* ReleaseLock that does not release.
ReleaseLock_Missing(n) == n
\* The finally block: reader.releaseLock().
ReleaseLock(n) == n + 1

\* Where the generator goes on after a message: the for loop while it has
\* messages left, reader.read() otherwise.
Resume(rest) == IF rest = <<>> THEN "read" ELSE "loop"

\* The handler takes its arguments, creates the generator and asks for its
\* first element: _makeHttpRequest issues the POST.
SubscribeSend ==
    /\ sPc = "idle"
    /\ uPhase = "idle"
    /\ nextReqId = 1
    /\ nextReqId' = nextReqId + 1
    /\ \E mu \in MaxUpdatesArgs : maxUpdates' = mu
    /\ sPc' = "sent"
    /\ sFetches' = 1
    /\ UNCHANGED <<xVars, uVars, stream, pos, buffer, lines, yielding, updates, count,
                   acquired, released, sOut, hOut, log>>

\* fetch rejects: no response, no reader.
StreamNetworkError ==
    /\ sPc = "sent"
    /\ sOut' = Threw(NetworkError)
    /\ hOut' = Threw(NetworkError)
    /\ sPc' = "closed"
    /\ sFetches' = CatchNetworkError(sFetches)
    /\ UNCHANGED <<xVars, nextReqId, uVars, stream, pos, buffer, lines, yielding,
                   updates, count, maxUpdates, acquired, released, log>>

\* A response without a success status or without a body: the generator
\* throws before it has a reader.
StreamRefused ==
    /\ sPc = "sent"
    /\ \E status \in Statuses, hasBody \in BOOLEAN :
          /\ ~IsOk(status) \/ ~hasBody
          /\ sOut' = Threw(HttpError(status, <<>>))
          /\ hOut' = Threw(HttpError(status, <<>>))
    /\ sPc' = "closed"
    /\ log' = Append(log, "http error")
    /\ UNCHANGED <<xVars, sFetches, nextReqId, uVars, stream, pos, buffer, lines, yielding, updates,
                   count, maxUpdates, acquired, released>>

\* A success response with a body: getReader(), buffer = "".
StreamOpen ==
    /\ sPc = "sent"
    /\ \E status \in Statuses : IsOk(status)
    /\ \E body \in Streams : stream' = body
    /\ pos' = 0
    /\ buffer' = <<>>
    /\ lines' = <<>>
    /\ sPc' = "read"
    /\ acquired' = acquired + 1
    /\ UNCHANGED <<xVars, sFetches, nextReqId, uVars, yielding, updates, count, maxUpdates, released,
                   sOut, hOut, log>>

\* reader.read() delivers the next k characters: they are appended to the
\* buffer, the buffer is split, and the last piece becomes the buffer.
Read ==
    /\ sPc = "read"
    /\ \E k \in ChunkSizes(Len(stream) - pos) :
          LET pieces == SplitLines(buffer \o SubSeq(stream, pos + 1, pos + k))
          IN  /\ buffer' = CarryOver(pieces)
              /\ lines' = Complete(pieces)
              /\ sPc' = Resume(Complete(pieces))
              /\ pos' = pos + k
    /\ UNCHANGED <<xVars, sFetches, nextReqId, uVars, stream, yielding, updates, count, maxUpdates,
                   acquired, released, sOut, hOut, log>>

\* What the decoder logs at the end of data.
EndOfDataLog(buf) == IF Trim(buf) # <<>> THEN <<"partial data">> ELSE <<>>

\* reader.read() reports done: a warning if the buffer holds text, break,
\* and the finally block.
ReadDone ==
    /\ sPc = "read"
    /\ pos = Len(stream)
    /\ log' = log \o EndOfDataLog(buffer) \o <<"finished">>
    /\ released' = ReleaseLock(released)
    /\ sOut' = Returned("done")
    /\ hOut' = Returned("updates")
    /\ sPc' = "closed"
    /\ UNCHANGED <<xVars, sFetches, nextReqId, uVars, stream, pos, buffer, lines, yielding, updates,
                   count, maxUpdates, acquired>>

\* reader.read() rejects (the connection broke): the outer catch logs and
\* rethrows, the finally block runs.
ReadError ==
    /\ sPc = "read"
    /\ log' = log \o <<"error reading", "finished">>
    /\ released' = ReleaseLock(released)
    /\ sOut' = Threw(NetworkError)
    /\ hOut' = Threw(NetworkError)
    /\ sPc' = "closed"
    /\ UNCHANGED <<xVars, sFetches, nextReqId, uVars, stream, pos, buffer, lines, yielding, updates,
                   count, maxUpdates, acquired>>

\* One iteration of the for loop over the messages.
Step ==
    /\ sPc = "loop"
    /\ lines # <<>>
    /\ LET a == HandleMessage(Head(lines))
       IN  /\ lines' = Tail(lines)
           /\ IF a.act = "yield"
              THEN /\ yielding' = a.value
                   /\ sPc' = "yield"
                   /\ log' = log \o a.logged
                   /\ UNCHANGED <<released, sOut, hOut>>
              ELSE IF a.act = "throw"
              THEN /\ log' = log \o a.logged \o <<"error reading", "finished">>
                   /\ released' = ReleaseLock(released)
                   /\ sOut' = Threw(a.error)
                   /\ hOut' = Threw(a.error)
                   /\ sPc' = "closed"
                   /\ UNCHANGED yielding
              ELSE /\ log' = log \o a.logged
                   /\ sPc' = Resume(Tail(lines))
                   /\ UNCHANGED <<yielding, released, sOut, hOut>>
    /\ UNCHANGED <<xVars, sFetches, nextReqId, uVars, stream, pos, buffer, updates, count, maxUpdates,
                   acquired>>

\* LoopBody that does not look at event.final.
LoopBody_NoFinal(event, newCount, mu) ==
    IF newCount >= mu THEN "break"
    ELSE IF event = "null" THEN "throw"
    ELSE "continue"
\* What the body of the handler's for-await loop does with an event, after
\* updates.push(event) and count++:
\*   "break" (count >= maxUpdates, or event.final), "throw" (event.final
\*   read from a null event), or "continue".
LoopBody(event, newCount, mu) ==
    IF newCount >= mu THEN "break"
    ELSE IF event = "null" THEN "throw"
    ELSE IF IsFinal(event) THEN "break"
    ELSE "continue"

\* The handler receives the yielded event.  Leaving the loop (break or
\* throw) calls the generator's return(): its finally block runs.
Consume ==
    /\ sPc = "yield"
    /\ updates' = Append(updates, yielding)
    /\ count' = count + 1
    /\ LET b == LoopBody(yielding, count + 1, maxUpdates)
       IN  IF b = "continue"
           THEN /\ sPc' = Resume(lines)
                /\ UNCHANGED <<released, sOut, hOut, log>>
           ELSE /\ released' = ReleaseLock(released)
                /\ log' = Append(log, "finished")
                /\ sOut' = Returned("return")
                /\ hOut' = IF b = "throw" THEN Threw(TypeError) ELSE Returned("updates")
                /\ sPc' = "closed"
    /\ UNCHANGED <<xVars, sFetches, nextReqId, uVars, stream, pos, buffer, lines, yielding, maxUpdates,
                   acquired>>

Next ==
    \/ UnarySend
    \/ UnaryNetworkError
    \/ UnaryResponse
    \/ SubscribeSend
    \/ StreamNetworkError
    \/ StreamRefused
    \/ StreamOpen
    \/ Read
    \/ ReadDone
    \/ ReadError
    \/ Step
    \/ Consume

Spec == Init /\ [][Next]_vars

(***************************************************************************)
(* The server: runServer, the registry's initialize, and the handlers.    *)
(* A client call made by a handler is seen from outside here: the request *)
(* it issues and the outcome it comes back with.                           *)
(***************************************************************************)
\* The client state does not move while the server is followed.
ClientIdle == UNCHANGED <<uVars, sVars, kVars, pVars>>

\* The lists of entries an operator may write into A2A_ENDPOINT_URLS.
EntryLists == UNION {[1..n -> UrlEntries] : n \in 0..MaxEndpoints}

\* The server after its module was loaded, in a runtime that has
\* crypto.randomUUID (has) or lacks it.
ServerBoot(has) ==
    /\ uPhase = "idle"
    /\ uReq = [method |-> "none", id |-> 0]
    /\ uResp = [status |-> 0, body |-> <<>>]
    /\ uOut = Pending
    /\ uFetches = 0
    /\ sPc = "idle"
    /\ stream = <<>>
    /\ pos = 0
    /\ buffer = <<>>
    /\ lines = <<>>
    /\ yielding = "undefined"
    /\ updates = <<>>
    /\ count = 0
    /\ maxUpdates = DefaultMaxUpdates
    /\ acquired = 0
    /\ released = 0
    /\ sOut = Pending
    /\ hOut = Pending
    /\ log = <<>>
    /\ sFetches = 0
    /\ hasRandomUUID = has
    /\ now = 0
    /\ \E items \in EntryLists, single \in SingleUrls :
          /\ items = <<>> \/ single = <<>>
          /\ ServerStart(JoinComma(items), single,
                         IF items # <<>> THEN [i \in 1..Len(items) |-> Trim(items[i])]
                         ELSE IF single # <<>> THEN <<single>>
                         ELSE <<>>)
    /\ nextReqId = Len(endpoints) + 1
    /\ kPc = "new"
    /\ ctorArg = <<>>
    /\ baseUrl = <<>>
    /\ NoConcurrentCalls

\* The runtime may have crypto.randomUUID or lack it (_generateRequestId
\* provides for both).
ServerInit == \E has \in BOOLEAN : ServerBoot(has)

\* agentCard is called: the GET of the well-known path is issued.
StartCard(for, agent, cap) ==
    /\ cPc' = "wellknown"
    /\ cFor' = for
    /\ cAgent' = agent
    /\ cCap' = cap
    /\ cReqs' = <<WellKnownPath>>
    /\ cFirst' = NoResp
    /\ cSecond' = NoResp
    /\ cOut' = Pending

\* No call of agentCard is open.
CardIdle ==
    /\ cPc' = "idle"
    /\ cFor' = "none"
    /\ cAgent' = "none"
    /\ cCap' = "none"
    /\ cReqs' = <<>>
    /\ cFirst' = NoResp
    /\ cSecond' = NoResp
    /\ cOut' = Pending

\* A handler starts: what the handler before it left behind is gone.
NewCall(tool, agentId, taskId) ==
    /\ tCall' = CallArgs(tool, agentId, taskId)
    /\ toolCalls' = toolCalls + 1
    /\ tReported' = Undefined
    /\ infoIdx' = 0
    /\ results' = <<>>
    /\ listed' = <<>>

\* A handler fails before it has sent anything.
FailEarly(e) ==
    /\ tOut' = Threw(e)
    /\ tPc' = "done"
    /\ tSent' = 0
    /\ tReq' = NoReq

\* initialize: the loop takes the next endpoint, creates its client and
\* calls agentCard.
ProbeStart ==
    /\ rPc = "init"
    /\ cPc = "idle"
    /\ probeIdx <= Len(endpoints)
    /\ StartCard("initialize", endpoints[probeIdx].id, "none")
    /\ ClientIdle
    /\ UNCHANGED <<nextReqId, eVars, rVars, tVars>>

\* The response to the well-known request.
CardWellKnown ==
    /\ cPc = "wellknown"
    /\ \E r \in CardResps :
          /\ cFirst' = r
          /\ IF AfterWellKnown(r).fallback
             THEN /\ cPc' = "fallback"
                  /\ cReqs' = Append(cReqs, AgentCardPath)
                  /\ tSent' = IF cFor = "initialize" THEN tSent ELSE tSent + 1
                  /\ UNCHANGED cOut
             ELSE /\ cPc' = "done"
                  /\ cOut' = AfterWellKnown(r).out
                  /\ UNCHANGED <<cReqs, tSent>>
    /\ ClientIdle
    /\ UNCHANGED <<nextReqId, eVars, rVars, cFor, cAgent, cCap, cSecond>>
    /\ UNCHANGED <<tPc, tCall, tUri, tReq, tOut, tReported, infoIdx, results, listed,
                   toolCalls, issued, taskIds>>

\* The response to the agent-card request.
CardFallback ==
    /\ cPc = "fallback"
    /\ \E r \in CardResps :
          /\ cSecond' = r
          /\ cOut' = AfterFallback(r)
    /\ cPc' = "done"
    /\ ClientIdle
    /\ UNCHANGED <<nextReqId, eVars, rVars, cFor, cAgent, cCap, cReqs, cFirst, tVars>>

\* initialize: agentCard came back.  The client is registered when it
\* returned; the catch logs when it threw.
ProbeDone ==
    /\ rPc = "init"
    /\ cPc = "done"
    /\ cFor = "initialize"
    /\ IF cOut.kind = "returned"
       THEN /\ clients' = MapSet(clients, endpoints[probeIdx].id)
            /\ probeIdx' = probeIdx + 1
       ELSE /\ clients' = clients
            /\ probeIdx' = OnProbeFailure(probeIdx, Len(endpoints))
    /\ probeOk' = Append(probeOk, cOut.kind = "returned")
    /\ CardIdle
    /\ ClientIdle
    /\ UNCHANGED <<nextReqId, eVars, envUrls, envUrl, configured, endpoints, rPc, tVars>>

\* initialize returns; runServer connects the transport.
InitializeDone ==
    /\ rPc = "init"
    /\ cPc = "idle"
    /\ probeIdx > Len(endpoints)
    /\ rPc' = "serving"
    /\ ClientIdle
    /\ UNCHANGED <<nextReqId, eVars, envUrls, envUrl, configured, endpoints, clients,
                   probeIdx, probeOk, cVars, tVars>>

\* The clock moves on.  (It is read only where crypto.randomUUID is
\* missing.)
Tick ==
    /\ rPc = "serving"
    /\ tPc = "idle"
    /\ ~hasRandomUUID
    /\ now < MaxClock
    /\ now' = now + 1
    /\ ClientIdle
    /\ UNCHANGED <<nextReqId, hasRandomUUID, rVars, cVars, tVars>>

\* a2a_send_task, a2a_get_task, a2a_cancel_task, a2a_send_task_subscribe:
\* the handler picks the client, makes the task id, and the client issues
\* its POST with a request id of its own.
ToolCall ==
    /\ Connected(rPc)
    /\ tPc = "idle"
    /\ toolCalls < MaxToolCalls
    /\ \E tool \in PostTools, agentId \in AgentIdArgs, taskId \in TaskIdArgs :
          /\ tool \notin SendTools => taskId = "t1"
          /\ NewCall(tool, agentId, taskId)
          /\ LET client == SelectClient(tool, clients, agentId)
                 tid == TaskIdFor(tool, taskId, hasRandomUUID, nextReqId)
                 fresh == nextReqId + tid.drawn
                 rid == GenerateRequestId(hasRandomUUID, fresh, now)
             IN  IF client = Undefined
                 THEN /\ FailEarly(RoutingError(tool, agentId))
                      /\ UNCHANGED <<nextReqId, issued, taskIds>>
                 ELSE IF ~tid.ok
                 THEN /\ FailEarly(ReferenceError)
                      /\ UNCHANGED <<nextReqId, issued, taskIds>>
                 ELSE /\ tReq' = [agent |-> client, method |-> MethodOf(tool),
                                  id |-> rid, taskId |-> tid.id]
                      /\ issued' = Append(issued, rid)
                      /\ taskIds' = IF tid.drawn = 1 THEN Append(taskIds, tid.id)
                                    ELSE taskIds
                      /\ nextReqId' = IF hasRandomUUID THEN fresh + 1 ELSE fresh
                      /\ tSent' = 1
                      /\ tPc' = "sent"
                      /\ tOut' = Pending
    /\ tUri' = <<>>
    /\ CardIdle
    /\ ClientIdle
    /\ UNCHANGED <<eVars, rVars>>

\* fetch rejects: the handler's catch turns the network error into an
\* error result.
ToolNetworkError ==
    /\ tPc = "sent"
    /\ tOut' = Threw(NetworkError)
    /\ tPc' = "done"
    /\ ClientIdle
    /\ UNCHANGED <<nextReqId, eVars, rVars, cVars, tCall, tUri, tReq, tSent, tReported,
                   infoIdx, results, listed, toolCalls, issued, taskIds>>

\* The answer to the POST of a unary tool.
ToolResponse ==
    /\ tPc = "sent"
    /\ tCall.tool # "a2a_send_task_subscribe"
    /\ \E r \in ToolResps : tOut' = HandleJsonResponse(r.status, r.body)
    /\ tPc' = "done"
    /\ ClientIdle
    /\ UNCHANGED <<nextReqId, eVars, rVars, cVars, tCall, tUri, tReq, tSent, tReported,
                   infoIdx, results, listed, toolCalls, issued, taskIds>>

\* a2a_send_task_subscribe: the stream was consumed; the result reports
\* the task id and the updates.
SubscribeResult ==
    /\ tPc = "sent"
    /\ tCall.tool = "a2a_send_task_subscribe"
    /\ \E o \in SubscribeOutcomes :
          /\ tOut' = o
          /\ tReported' = IF o.kind = "returned" THEN tReq.taskId ELSE Undefined
    /\ tPc' = "done"
    /\ ClientIdle
    /\ UNCHANGED <<nextReqId, eVars, rVars, cVars, tCall, tUri, tReq, tSent,
                   infoIdx, results, listed, toolCalls, issued, taskIds>>

\* a2a_agent_info: with a truthy agentId the card of that client, without
\* one the cards of all the clients, one after the other.
InfoCall ==
    /\ Connected(rPc)
    /\ tPc = "idle"
    /\ toolCalls < MaxToolCalls
    /\ \E agentId \in AgentIdArgs :
          /\ tCall' = CallArgs("a2a_agent_info", agentId, Undefined)
          /\ IF ~Falsy(agentId)
             THEN IF GetClientById(clients, agentId) = Undefined
                  THEN /\ FailEarly(RoutingError("a2a_agent_info", agentId))
                       /\ infoIdx' = 0
                       /\ CardIdle
                  ELSE /\ StartCard("a2a_agent_info", agentId, "none")
                       /\ infoIdx' = 0
                       /\ tPc' = "card"
                       /\ tSent' = 1
                       /\ tOut' = Pending
                       /\ tReq' = NoReq
             ELSE IF clients = <<>>
                  THEN /\ tOut' = Returned("results")
                       /\ tPc' = "done"
                       /\ tSent' = 0
                       /\ tReq' = NoReq
                       /\ infoIdx' = 0
                       /\ CardIdle
                  ELSE /\ StartCard("a2a_agent_info", clients[1], "none")
                       /\ infoIdx' = 1
                       /\ tPc' = "card"
                       /\ tSent' = 1
                       /\ tOut' = Pending
                       /\ tReq' = NoReq
    /\ tUri' = <<>>
    /\ toolCalls' = toolCalls + 1
    /\ tReported' = Undefined
    /\ results' = <<>>
    /\ listed' = <<>>
    /\ ClientIdle
    /\ UNCHANGED <<nextReqId, eVars, rVars, issued, taskIds>>

\* supports(capability) is called on a registered client.
SupportsCall ==
    /\ Connected(rPc)
    /\ tPc = "idle"
    /\ toolCalls < MaxToolCalls
    /\ \E i \in 1..Len(clients), capability \in Capabilities :
          /\ NewCall("supports", clients[i], Undefined)
          /\ StartCard("supports", clients[i], capability)
    /\ tUri' = <<>>
    /\ tPc' = "card"
    /\ tSent' = 1
    /\ tOut' = Pending
    /\ tReq' = NoReq
    /\ ClientIdle
    /\ UNCHANGED <<nextReqId, eVars, rVars, issued, taskIds>>

\* agentCard came back to the handler, or to supports, that called it.
CardDone ==
    /\ tPc = "card"
    /\ cPc = "done"
    /\ IF cFor = "supports"
       THEN /\ tOut' = Supports(cOut, cCap)
            /\ tPc' = "done"
            /\ UNCHANGED <<clients, infoIdx, results, tSent, cVars>>
       ELSE IF cFor = "resources/read"
       THEN /\ tOut' = IF cOut.kind = "threw" THEN Threw(ReadCardError) ELSE cOut
            /\ tPc' = "done"
            /\ UNCHANGED <<clients, infoIdx, results, tSent, cVars>>
       ELSE IF infoIdx = 0
       THEN /\ tOut' = cOut
            /\ tPc' = "done"
            /\ UNCHANGED <<clients, infoIdx, results, tSent, cVars>>
       ELSE /\ results' = Append(results, [agentId |-> cAgent, ok |-> cOut.kind = "returned"])
            /\ clients' = IF cOut.kind = "threw" THEN OnCardFailure(clients, cAgent)
                           ELSE clients
            /\ LET at == IF cOut.kind = "threw" THEN InfoCatch(infoIdx, Len(clients))
                          ELSE infoIdx
               IN  IF at < Len(clients)
                   THEN /\ StartCard("a2a_agent_info", clients[at + 1], "none")
                        /\ infoIdx' = at + 1
                        /\ tSent' = tSent + 1
                        /\ UNCHANGED <<tOut, tPc>>
                   ELSE /\ tOut' = Returned("results")
                        /\ tPc' = "done"
                        /\ UNCHANGED <<infoIdx, tSent, cVars>>
    /\ ClientIdle
    /\ UNCHANGED <<nextReqId, eVars, envUrls, envUrl, configured, endpoints, rPc,
                   probeIdx, probeOk, tCall, tUri, tReq, tReported, listed, toolCalls,
                   issued, taskIds>>

\* resources/read: the agent id is taken from the URI and looked up.
ReadResource ==
    /\ Connected(rPc)
    /\ tPc = "idle"
    /\ toolCalls < MaxToolCalls
    /\ \E uri \in {AgentCardUri(id) : id \in AgentIdArgs \ {Undefined}}
                    \cup {TasksUri, OtherUri} :
          /\ tUri' = uri
          /\ IF IsAgentCardUri(uri)
             THEN /\ NewCall("resources/read", UriAgentId(uri), Undefined)
                  /\ IF GetClientById(clients, UriAgentId(uri)) = Undefined
                     THEN /\ FailEarly(RoutingError("resources/read", UriAgentId(uri)))
                          /\ CardIdle
                     ELSE /\ StartCard("resources/read", UriAgentId(uri), "none")
                          /\ tPc' = "card"
                          /\ tSent' = 1
                          /\ tOut' = Pending
                          /\ tReq' = NoReq
             ELSE /\ NewCall("resources/read", Undefined, Undefined)
                  /\ IF uri = TasksUri
                     THEN /\ tOut' = Returned("tasks")
                          /\ tPc' = "done"
                          /\ tSent' = 0
                          /\ tReq' = NoReq
                     ELSE FailEarly(ResourceNotFound)
                  /\ CardIdle
    /\ ClientIdle
    /\ UNCHANGED <<nextReqId, eVars, rVars, issued, taskIds>>

\* resources/list: one agent-card resource per configured endpoint.
ListResources ==
    /\ Connected(rPc)
    /\ tPc = "idle"
    /\ toolCalls < MaxToolCalls
    /\ tCall' = CallArgs("resources/list", Undefined, Undefined)
    /\ tUri' = <<>>
    /\ toolCalls' = toolCalls + 1
    /\ listed' = [i \in 1..Len(GetEndpoints(endpoints)) |-> GetEndpoints(endpoints)[i].id]
    /\ tOut' = Returned("resources")
    /\ tPc' = "done"
    /\ tSent' = 0
    /\ tReq' = NoReq
    /\ tReported' = Undefined
    /\ infoIdx' = 0
    /\ results' = <<>>
    /\ CardIdle
    /\ ClientIdle
    /\ UNCHANGED <<nextReqId, eVars, rVars, issued, taskIds>>

\* The handler returns its result to the transport; its locals are gone.
Return ==
    /\ tPc = "done"
    /\ tPc' = "idle"
    /\ tCall' = CallArgs("none", Undefined, Undefined)
    /\ tUri' = <<>>
    /\ tReq' = NoReq
    /\ tSent' = 0
    /\ tOut' = Pending
    /\ tReported' = Undefined
    /\ infoIdx' = 0
    /\ results' = <<>>
    /\ listed' = <<>>
    /\ CardIdle
    /\ ClientIdle
    /\ UNCHANGED <<nextReqId, eVars, rVars, toolCalls, issued, taskIds>>

ServerNext ==
    \/ ProbeStart
    \/ CardWellKnown
    \/ CardFallback
    \/ ProbeDone
    \/ InitializeDone
    \/ Tick
    \/ ToolCall
    \/ ToolNetworkError
    \/ ToolResponse
    \/ SubscribeResult
    \/ InfoCall
    \/ SupportsCall
    \/ CardDone
    \/ ReadResource
    \/ ListResources
    \/ Return

ServerSpec == ServerInit /\ [][ServerNext]_vars

\* Nothing was called yet and no endpoint is configured.
Unstarted ==
    /\ nextReqId = 1
    /\ uPhase = "idle"
    /\ uReq = [method |-> "none", id |-> 0]
    /\ uResp = [status |-> 0, body |-> <<>>]
    /\ uOut = Pending
    /\ sPc = "idle"
    /\ stream = <<>>
    /\ pos = 0
    /\ buffer = <<>>
    /\ lines = <<>>
    /\ yielding = "undefined"
    /\ updates = <<>>
    /\ count = 0
    /\ maxUpdates = DefaultMaxUpdates
    /\ acquired = 0
    /\ released = 0
    /\ sOut = Pending
    /\ hOut = Pending
    /\ log = <<>>
    /\ uFetches = 0
    /\ sFetches = 0
    /\ hasRandomUUID = TRUE
    /\ now = 0
    /\ ServerStart(<<>>, <<>>, <<>>)

(***************************************************************************)
(* initialize alone, up to the moment runServer connects the transport.    *)
(* Each request of a probe is answered or fails in the end, and the event  *)
(* loop runs every continuation that is ready.                             *)
(***************************************************************************)
InitializeNext ==
    \/ ProbeStart
    \/ CardWellKnown
    \/ CardFallback
    \/ ProbeDone
    \/ InitializeDone

InitializeSpec ==
    /\ ServerInit
    /\ [][InitializeNext]_vars
    /\ WF_vars(ProbeStart)
    /\ WF_vars(CardWellKnown)
    /\ WF_vars(CardFallback)
    /\ WF_vars(ProbeDone)
    /\ WF_vars(InitializeDone)

(***************************************************************************)
(* The constructor alone: a client is constructed with a URL string.       *)
(***************************************************************************)
\* No client exists yet; the URL it will be constructed with is chosen.
UrlInit ==
    /\ Unstarted
    /\ kPc = "new"
    /\ ctorArg \in UrlStrings
    /\ baseUrl = <<>>
    /\ NoConcurrentCalls

\* new A2AClient(ctorArg)
Construct ==
    /\ kPc = "new"
    /\ baseUrl' = NormalizeBaseUrl(ctorArg)
    /\ kPc' = "constructed"
    /\ UNCHANGED <<nextReqId, uVars, sVars, eVars, rVars, cVars, tVars, ctorArg, pVars>>

UrlNext == Construct

UrlSpec == UrlInit /\ [][UrlNext]_vars

(***************************************************************************)
(* Two streaming calls in flight at the same time, each consumed to its    *)
(* end.  The steps of the two generators interleave freely: a step is what *)
(* a generator does between two awaits.                                    *)
(***************************************************************************)
\* A `buffer` that is one field shared by the calls.
BufferOf_Shared(k) == 1
\* `let buffer` is a local of _handleStreamingResponse: each call of the
\* generator has its own.
BufferOf(k) == k

\* Both requests were sent; each will be answered with a stream.
ConcurrentInit ==
    /\ Unstarted
    /\ kPc = "constructed"
    /\ ctorArg = <<"h">>
    /\ baseUrl = NormalizeBaseUrl(ctorArg)
    /\ calls \in [CallIds -> {CallSent(body) : body \in ConcurrentStreams}]
    /\ buffers = [k \in CallIds |-> <<>>]

ConcurrentIdle == UNCHANGED <<nextReqId, uVars, sVars, eVars, rVars, cVars, tVars, kVars>>

\* The response of a call arrives: getReader(), buffer = "".
ConcurrentOpen ==
    /\ \E k \in CallIds :
          /\ calls[k].pc = "sent"
          /\ calls' = [calls EXCEPT ![k].pc = "read",
                                    ![k].acquired = calls[k].acquired + 1]
          /\ buffers' = [buffers EXCEPT ![BufferOf(k)] = <<>>]
    /\ ConcurrentIdle

\* reader.read() of a call delivers its next characters.
ConcurrentRead ==
    /\ \E k \in CallIds :
          /\ calls[k].pc = "read"
          /\ \E n \in ChunkSizes(Len(calls[k].stream) - calls[k].pos) :
                LET c == calls[k]
                    pieces == SplitLines(buffers[BufferOf(k)]
                                         \o SubSeq(c.stream, c.pos + 1, c.pos + n))
                IN  /\ buffers' = [buffers EXCEPT ![BufferOf(k)] = CarryOver(pieces)]
                    /\ calls' = [calls EXCEPT ![k].lines = Complete(pieces),
                                              ![k].pc = Resume(Complete(pieces)),
                                              ![k].pos = c.pos + n]
    /\ ConcurrentIdle

\* reader.read() of a call reports done: break, and the finally block.
ConcurrentReadDone ==
    /\ \E k \in CallIds :
          /\ calls[k].pc = "read"
          /\ calls[k].pos = Len(calls[k].stream)
          /\ calls' = [calls EXCEPT ![k].pc = "closed",
                                    ![k].end = Returned("done"),
                                    ![k].released = ReleaseLock(calls[k].released)]
    /\ UNCHANGED buffers
    /\ ConcurrentIdle

\* One iteration of a call's for loop; a yielded value goes to the
\* consumer of that call, which asks for the next one.
ConcurrentStep ==
    /\ \E k \in CallIds :
          /\ calls[k].pc = "loop"
          /\ LET c == calls[k]
                 a == HandleMessage(Head(c.lines))
             IN  calls' =
                    IF a.act = "yield"
                    THEN [calls EXCEPT ![k].lines = Tail(c.lines),
                                       ![k].out = Append(c.out, a.value),
                                       ![k].pc = Resume(Tail(c.lines))]
                    ELSE IF a.act = "throw"
                    THEN [calls EXCEPT ![k].lines = Tail(c.lines),
                                       ![k].pc = "closed",
                                       ![k].end = Threw(a.error),
                                       ![k].released = ReleaseLock(c.released)]
                    ELSE [calls EXCEPT ![k].lines = Tail(c.lines),
                                       ![k].pc = Resume(Tail(c.lines))]
    /\ UNCHANGED buffers
    /\ ConcurrentIdle

ConcurrentNext ==
    \/ ConcurrentOpen
    \/ ConcurrentRead
    \/ ConcurrentReadDone
    \/ ConcurrentStep

ConcurrentSpec == ConcurrentInit /\ [][ConcurrentNext]_vars

(***************************************************************************)
(* The frames of a byte stream, as the protocol defines them.              *)
(***************************************************************************)
IsPrefix(s, t) == Len(s) <= Len(t) /\ SubSeq(t, 1, Len(s)) = s

\* The complete frames of a body: the blocks that end with a blank line.
Frames(body) == LET pieces == SplitLines(body) IN SubSeq(pieces, 1, Len(pieces) - 1)
\* What follows the last blank line of a body.
Trailing(body) == LET pieces == SplitLines(body) IN pieces[Len(pieces)]

\* A data frame: a block that starts with "data: " and has a data line.
IsDataFrame(m) == StartsWithData(m) /\ DataLine(m) # <<>>
\* A well-formed frame: its data line is a JSON object tagged "2.0".
IsWellFormed(m) ==
    /\ IsDataFrame(m)
    /\ LET p == JSONParse(DataLine(m))
       IN  p.ok /\ p.value.kind = "object" /\ p.value.jsonrpc = "2.0"
\* A malformed frame: unparseable, not an object, or without the tag.
IsMalformed(m) == IsDataFrame(m) /\ ~IsWellFormed(m)
\* A well-formed frame that carries an `error`.
IsErrorFrame(m) == IsWellFormed(m) /\ JSONParse(DataLine(m)).value.errKind = "object"
\* A well-formed frame that carries a `result` and no `error`.
IsResultFrame(m) ==
    /\ IsWellFormed(m)
    /\ LET v == JSONParse(DataLine(m)).value
       IN  v.errKind # "object" /\ v.hasResult
ResultOf(m) == JSONParse(DataLine(m)).value.result

HasErrorFrame(body) ==
    LET fs == Frames(body) IN \E i \in 1..Len(fs) : IsErrorFrame(fs[i])

\* The results of the result frames among ms, in their order.
RECURSIVE Results(_)
Results(ms) ==
    IF ms = <<>> THEN <<>>
    ELSE IF IsResultFrame(Head(ms)) THEN <<ResultOf(Head(ms))>> \o Results(Tail(ms))
    ELSE Results(Tail(ms))

\* The generator is past getReader().
Decoding == sPc \in {"read", "loop", "yield"}
\* The generator ended at the end of data: every event was consumed.
EndOfData == sPc = "closed" /\ sOut = Returned("done")
\* The generator ended because the handler left its loop.
StoppedEarly == sPc = "closed" /\ sOut = Returned("return")
\* The generator ended by itself: not by the handler, not by a read error.
EndedByItself == sPc = "closed" /\ acquired = 1 /\ ~StoppedEarly /\ sOut # Threw(NetworkError)
\* The generator is suspended on a yield: `yielding` is the next element
\* of its output, which the handler is about to push onto updates.  The
\* handler's updates change at no other moment.
AtYield == sPc = "yield"

(***************************************************************************)
(* C1.  A well-formed data frame that carries an `error` ends the stream   *)
(* with a protocol error: as soon as the decoder has met such a frame      *)
(* (it logs "error in stream"), the generator has ended by throwing        *)
(* `<message> (<code>)`, so nothing after that frame is yielded.           *)
(* The code's inner catch swallows the error and the stream goes on.       *)
(***************************************************************************)
C1_ErrorFrameEndsStream ==
    (\E i \in 1..Len(log) : log[i] = "error in stream")
        => (sPc = "closed" /\ sOut = Threw(RpcError(AgentError)))

(***************************************************************************)
(* What the decoder yields and how it ends when the whole body arrives in  *)
(* one chunk and every event is consumed: one split, one pass of the loop. *)
(***************************************************************************)
RECURSIVE LoopYields(_)
LoopYields(ms) ==
    IF ms = <<>> THEN <<>>
    ELSE LET a == HandleMessage(Head(ms))
         IN  IF a.act = "yield" THEN <<a.value>> \o LoopYields(Tail(ms))
             ELSE IF a.act = "throw" THEN <<>>
             ELSE LoopYields(Tail(ms))
RECURSIVE LoopEnd(_)
LoopEnd(ms) ==
    IF ms = <<>> THEN Returned("done")
    ELSE LET a == HandleMessage(Head(ms))
         IN  IF a.act = "throw" THEN Threw(a.error) ELSE LoopEnd(Tail(ms))
WholeBodyLines(body) == Frames(body)
WholeBodyYields(body) == LoopYields(WholeBodyLines(body))
WholeBodyEnd(body) == LoopEnd(WholeBodyLines(body))

(***************************************************************************)
(* C2.  Streaming decode is chunk-boundary-insensitive: however the body   *)
(* is cut into chunks, every element the generator yields continues a      *)
(* prefix of what the whole body delivered in one chunk yields, and a call *)
(* that ends by itself (end of data, or an error of the decoder) has       *)
(* yielded exactly that sequence and ends the way the one-chunk call ends. *)
(***************************************************************************)
C2_ChunkInsensitive ==
    /\ AtYield => IsPrefix(Append(updates, yielding), WholeBodyYields(stream))
    /\ EndedByItself =>
          LET ms == WholeBodyLines(stream)
          IN  updates = LoopYields(ms) /\ sOut = LoopEnd(ms)

\* A frame has been yielded, and the chunk that was read last ends between
\* the two line feeds of the next frame's blank line.
C2_Witness ==
    /\ sPc = "read"
    /\ Len(updates) >= 1
    /\ StartsWithData(buffer)
    /\ buffer[Len(buffer)] = "\n"
    /\ pos < Len(stream)
    /\ stream[pos + 1] = "\n"

(***************************************************************************)
(* C3.  A malformed data frame is skipped without ending the stream: in a  *)
(* stream without error frame, a malformed frame j between two result      *)
(* frames i and k does not make the call fail, and a call that runs to the *)
(* end of data has yielded both results, that of i before that of k, at    *)
(* the places their order among the result frames gives them.              *)
(***************************************************************************)
ResultIndex(ms, n) == Cardinality({m \in 1..n : IsResultFrame(ms[m])})
Sandwiches(ms) ==
    {t \in (1..Len(ms)) \X (1..Len(ms)) \X (1..Len(ms)) :
        /\ t[1] < t[2] /\ t[2] < t[3]
        /\ IsResultFrame(ms[t[1]]) /\ IsMalformed(ms[t[2]]) /\ IsResultFrame(ms[t[3]])}

C3_MalformedSkipped ==
    EndedByItself =>
        LET fs == Frames(stream)
        IN  (Sandwiches(fs) # {} /\ \A i \in 1..Len(fs) : ~IsErrorFrame(fs[i])) =>
                /\ sOut = Returned("done")
                /\ \A t \in Sandwiches(fs) :
                      /\ ResultIndex(fs, t[3]) <= Len(updates)
                      /\ updates[ResultIndex(fs, t[1])] = ResultOf(fs[t[1]])
                      /\ updates[ResultIndex(fs, t[3])] = ResultOf(fs[t[3]])
                      /\ ResultIndex(fs, t[1]) < ResultIndex(fs, t[3])

\* The stream is a result, a cut-off JSON text and a result; the call ran
\* to the end of data and yielded the two results.
C3_Witness ==
    /\ EndOfData
    /\ stream = Frame(<<"R1">>, LF2) \o Frame(<<"{">>, LF2) \o Frame(<<"R1">>, LF2)
    /\ updates = <<"u1", "u1">>

(***************************************************************************)
(* C4.  Once a streaming call has its reader, the reader is released       *)
(* exactly once on every exit path (end of data, the handler leaving its   *)
(* loop, a read error), and not before: while the generator can still      *)
(* yield, the reader has not been released.                                *)
(***************************************************************************)
C4_ReleasedOnce ==
    /\ acquired <= 1
    /\ Decoding => (acquired = 1 /\ released = 0)
    /\ sPc = "closed" => released = acquired
    /\ sPc \in {"idle", "sent"} => (acquired = 0 /\ released = 0)

\* The handler left its loop before the end of the body, and the reader
\* was released.
C4_Witness ==
    /\ StoppedEarly
    /\ pos < Len(stream)
    /\ acquired = 1
    /\ released = 1

(***************************************************************************)
(* C5.  In a streaming call whose stream has no error frame, the yielded   *)
(* sequence is the results of the complete, valid, result-carrying data    *)
(* frames in stream order: every element yielded continues a prefix of     *)
(* them, and a call that runs to the end of data has yielded all of them.  *)
(***************************************************************************)
C5_ResultsInOrder ==
    /\ (AtYield /\ ~HasErrorFrame(stream)) =>
          IsPrefix(Append(updates, yielding), Results(Frames(stream)))
    /\ (EndOfData /\ ~HasErrorFrame(stream)) => updates = Results(Frames(stream))

\* A call ran to the end of data of a stream with a malformed frame and
\* two result frames, and yielded the two results.
C5_Witness ==
    /\ EndOfData
    /\ ~HasErrorFrame(stream)
    /\ Len(updates) = 2
    /\ Len(Frames(stream)) = 3

(***************************************************************************)
(* C6.  The fragment after the last blank line is never emitted: each      *)
(* element yielded comes from a complete frame (there are never more of    *)
(* them than complete result frames), at the end of data the buffer holds  *)
(* that fragment, and an end of data with text in the buffer ends the call *)
(* normally, with a warning.                                               *)
(***************************************************************************)
C6_TrailingFragmentKept ==
    /\ AtYield => Len(updates) + 1 <= Len(Results(Frames(stream)))
    /\ (EndedByItself /\ ~HasErrorFrame(stream)) =>
          /\ sOut = Returned("done")
          /\ buffer = Trailing(stream)
          /\ Trim(buffer) # <<>> => \E i \in 1..Len(log) : log[i] = "partial data"

\* The body ends with a result frame that has no blank line after it: the
\* call ended normally and the frame is still in the buffer.
C6_Witness ==
    /\ EndOfData
    /\ buffer = DataPrefix \o <<"R2">>
    /\ Len(updates) = 1
    /\ log = <<"partial data", "finished">>

(***************************************************************************)
(* Unary calls: the response the last call received and its envelope.      *)
(***************************************************************************)
\* The last unary call was answered (uResp is reset when a call is sent).
Answered == uPhase = "idle" /\ uResp.status # 0
AnsweredOk == Answered /\ IsOk(uResp.status)
\* The body is a JSON-RPC envelope: a JSON object tagged "2.0".
IsEnvelope(p) == p.ok /\ p.value.kind = "object" /\ p.value.jsonrpc = "2.0"

(***************************************************************************)
(* C7.  A unary call answered with a success status and an envelope that   *)
(* holds both an `error` and a `result` fails with the error               *)
(* `<message> (<code>)`; the result is not returned.                       *)
(***************************************************************************)
C7_ErrorPrecedesResult ==
    AnsweredOk =>
        LET p == JSONParse(uResp.body)
        IN  (IsEnvelope(p) /\ p.value.errKind = "object" /\ p.value.hasResult)
                => uOut = Threw(RpcError(p.value.error))

\* A call was answered 200 with an envelope holding an error and a result,
\* and failed with the error.
C7_Witness ==
    /\ Answered
    /\ uResp = [status |-> 200, body |-> <<"EB">>]
    /\ uOut = Threw(RpcError(AgentError))

(***************************************************************************)
(* C8.  A unary call answered with a non-success status surfaces the       *)
(* embedded `<message> (<code>)` when the body parses as an envelope with  *)
(* an `error`, and the generic HTTP error with the raw body only when it   *)
(* does not.  The code's inner catch swallows the embedded error, and the  *)
(* generic HTTP error is what the caller gets in every case.               *)
(***************************************************************************)
C8_EmbeddedErrorSurfaced ==
    (Answered /\ ~IsOk(uResp.status)) =>
        LET p == JSONParse(uResp.body)
        IN  IF p.ok /\ p.value.kind = "object" /\ p.value.errKind = "object"
            THEN uOut = Threw(RpcError(p.value.error))
            ELSE uOut = Threw(HttpError(uResp.status, uResp.body))

(***************************************************************************)
(* C9.  A unary call answered with a success status fails whenever the     *)
(* body is not an object, lacks the version tag "2.0", or carries neither  *)
(* a `result` nor an `error`; no value is returned in these cases.  The    *)
(* code has no check for the third case and returns undefined.             *)
(***************************************************************************)
C9_InvalidEnvelopeFails ==
    AnsweredOk =>
        LET p == JSONParse(uResp.body)
        IN  (\/ ~IsEnvelope(p)
             \/ (~p.value.hasResult /\ p.value.errKind = "none"))
                => uOut.kind = "threw"

(***************************************************************************)
(* C10.  A unary call answered with a success status and a well-formed     *)
(* envelope without `error` returns the envelope's `result` (a null result *)
(* too), whether or not the envelope's id is the id of the request.        *)
(***************************************************************************)
C10_ResultReturned ==
    AnsweredOk =>
        LET p == JSONParse(uResp.body)
        IN  (IsEnvelope(p) /\ p.value.errKind = "none" /\ p.value.hasResult)
                => uOut = Returned(p.value.result)

\* A call was answered 200 with a null result under an id that is not the
\* request's, and returned null.
C10_Witness ==
    /\ Answered
    /\ uResp = [status |-> 200, body |-> <<"RN">>]
    /\ uReq.id # JsonValue("RN").id
    /\ uOut = Returned("null")

(***************************************************************************)
(* Claims about the number of requests of a call and about the consumer   *)
(* of a stream.                                                            *)
(***************************************************************************)
\* C16: every call issues exactly one HTTP POST whatever its outcome: a
\* unary call (sendTask, getTask, cancelTask) that was started has called
\* fetch() once, whether it is waiting, has returned, or has failed with a
\* network, HTTP or protocol error, and so has a consumed stream; a call
\* that was not started has issued none.
C16_SingleAttempt ==
    /\ uFetches = (IF uReq.method = "none" THEN 0 ELSE 1)
    /\ sFetches = (IF sPc = "idle" THEN 0 ELSE 1)

\* C16 witness: a unary call failed with a network error after its one POST.
C16_Witness ==
    /\ uPhase = "idle"
    /\ uReq.method = "tasks/send"
    /\ uOut = Threw(NetworkError)
    /\ uFetches = 1

\* The index of the first event flagged final, 0 when there is none.
FirstFinal(evs) ==
    LET finals == {i \in 1..Len(evs) : IsFinal(evs[i])}
    IN  IF finals = {} THEN 0
        ELSE CHOOSE i \in finals : \A j \in finals : i <= j

\* C19: when the a2a_send_task_subscribe handler answers with updates and
\* the first final event of the stream arrives within maxUpdates, the
\* updates are exactly the events up to and including that event, in
\* arrival order, and the generator was stopped at that event (it was
\* returned at its yield, so nothing after the event was taken from it).
C19_StopsOnFinal ==
    (sPc = "closed" /\ hOut = Returned("updates") /\ ~HasErrorFrame(stream)) =>
        LET evs == Results(Frames(stream))
            k == FirstFinal(evs)
        IN  (k > 0 /\ k <= maxUpdates) =>
                /\ updates = SubSeq(evs, 1, k)
                /\ count = k
                /\ sOut = Returned("return")

\* C19 witness: a working event, a final event and one more event; the
\* handler answered with the first two.
C19_Witness ==
    /\ sPc = "closed"
    /\ stream = Frame(<<"R1">>, LF2) \o Frame(<<"RF">>, CRLF2) \o Frame(<<"R1">>, LF2)
    /\ maxUpdates = DefaultMaxUpdates
    /\ hOut = Returned("updates")
    /\ updates = <<"u1", "uF">>

\* C20: the number of updates of a2a_send_task_subscribe never exceeds
\* maxUpdates.
C20_AtMostMaxUpdates == Len(updates) <= maxUpdates

(***************************************************************************)
(* Claims about the registry, the routing of tool calls, the descriptor   *)
(* and the ids.                                                            *)
(***************************************************************************)
\* The ids of the live client set.
Live == {clients[i] : i \in 1..Len(clients)}
\* initialize has completed.
Serving == rPc = "serving"

\* C11: after initialize has completed, every endpoint was probed, the
\* live client set holds exactly one client for each endpoint whose probe
\* succeeded and none for one whose probe failed, and getEndpoints()
\* reports the configured URLs in configured order.
C11_InitializeRegistersReachable ==
    Serving =>
        /\ Len(probeOk) = Len(endpoints)
        /\ \A i \in 1..Len(endpoints) : probeOk[i] <=> endpoints[i].id \in Live
        /\ Live \subseteq {endpoints[i].id : i \in 1..Len(endpoints)}
        /\ \A i, j \in 1..Len(clients) : clients[i] = clients[j] => i = j
        /\ Len(clients) = Cardinality({i \in 1..Len(endpoints) : probeOk[i]})
        /\ [i \in 1..Len(endpoints) |-> GetEndpoints(endpoints)[i].url] = configured

\* C11 witness: two endpoints with the same URL; the probe of the first
\* failed, the probe of the second succeeded and it alone is registered.
C11_Witness ==
    /\ Serving
    /\ configured = <<<<"a">>, <<"a">>>>
    /\ probeOk = <<FALSE, TRUE>>
    /\ clients = <<endpoints[2].id>>

RoutingErrors ==
    {RoutingError(tool, agentId) :
        tool \in PostTools \cup {"a2a_agent_info"}, agentId \in AgentIdArgs}

\* C13: a tool call that names an agent (its agentId is given and is not
\* the empty string) that is not in the live client set has failed with a
\* routing error, which is neither the network error nor an error an agent
\* reported, and has sent nothing to any agent.
C13_UnknownAgentIsRoutingError ==
    (/\ tCall.tool \in PostTools \cup {"a2a_agent_info"}
     /\ ~Falsy(tCall.agentId)
     /\ tCall.agentId \notin Live) =>
        /\ tPc = "done"
        /\ tOut.kind = "threw"
        /\ tOut.error \in RoutingErrors
        /\ tOut.error \notin {NetworkError, RpcError(AgentError)}
        /\ tSent = 0
        /\ tReq = NoReq

\* C13 witness: a2a_send_task named the endpoint whose probe failed while
\* another agent was live; it failed with the routing error and sent
\* nothing.
C13_Witness ==
    /\ Serving
    /\ probeOk = <<FALSE, TRUE>>
    /\ tCall = CallArgs("a2a_send_task", endpoints[1].id, "t1")
    /\ tOut = Threw(RoutingError("a2a_send_task", endpoints[1].id))
    /\ tSent = 0

\* A response that is no descriptor: fetch failed, the status is not a
\* success, or the body does not parse.
AttemptFailed(r) ==
    \/ r.net = "failed"
    \/ r.net = "ok" /\ ~IsOk(r.status)
    \/ r.net = "ok" /\ IsOk(r.status) /\ ResponseJson(r.body).kind = "threw"
\* The body of the descriptor that was fetched, <<>> when none was.
Fetched ==
    IF cFirst.net = "ok" /\ ~AttemptFailed(cFirst) THEN cFirst.body
    ELSE IF cSecond.net = "ok" /\ ~AttemptFailed(cSecond) THEN cSecond.body
    ELSE <<>>
\* The descriptor with this body has the capability set.
HasCapability(body, capability) ==
    \/ body = <<"K1">> /\ capability = "streaming"
    \/ body = <<"KP">> /\ capability = "pushNotifications"

\* C14: supports(capability) never fails; it returns true when a
\* descriptor was fetched whose capabilities have the capability set, and
\* false otherwise, in particular whenever the retrieval failed.
C14_SupportsNeverFails ==
    (tCall.tool = "supports" /\ tPc = "done") =>
        /\ tOut.kind = "returned"
        /\ tOut = Returned(IF HasCapability(Fetched, cCap) THEN "true" ELSE "false")

\* C14 witness: both requests failed with a network error and supports
\* returned false.
C14_Witness ==
    /\ tCall.tool = "supports"
    /\ tPc = "done"
    /\ cCap = "streaming"
    /\ cFirst = NetFail
    /\ cSecond = NetFail
    /\ tOut = Returned("false")

\* C15: agentCard asks for the well-known path first; it asks for
\* /agent-card only after the well-known attempt failed with a network
\* error or a non-success status, never after a success status; and it
\* fails only if both attempts failed.
C15_WellKnownThenFallback ==
    cPc # "idle" =>
        /\ cReqs[1] = WellKnownPath
        /\ Len(cReqs) <= 2
        /\ Len(cReqs) = 2 =>
              /\ cReqs[2] = AgentCardPath
              /\ cFirst.net = "failed" \/ (cFirst.net = "ok" /\ ~IsOk(cFirst.status))
        /\ (cFirst.net = "ok" /\ IsOk(cFirst.status)) => Len(cReqs) = 1
        /\ (cPc = "done" /\ cOut.kind = "threw") =>
              AttemptFailed(cFirst) /\ AttemptFailed(cSecond)

\* C17: no two JSON-RPC requests issued by the process carry the same
\* request id.
C17_RequestIdsDistinct ==
    \A i, j \in 1..Len(issued) : issued[i] = issued[j] => i = j

\* C18: a task id generated for a send without a taskId is not empty and
\* differs from every task id generated before; it is the id in the
\* params of the request; and the taskId a2a_send_task_subscribe reports
\* is the id in the params of its request.
C18_FreshTaskId ==
    /\ \A i \in 1..Len(taskIds) : taskIds[i] \notin {"", Undefined}
    /\ \A i, j \in 1..Len(taskIds) : taskIds[i] = taskIds[j] => i = j
    /\ (tCall.tool \in SendTools /\ Falsy(tCall.taskId) /\ tReq # NoReq) =>
          /\ tReq.taskId \notin {"", Undefined}
          /\ Len(taskIds) >= 1
          /\ tReq.taskId = taskIds[Len(taskIds)]
    /\ (tCall.tool = "a2a_send_task_subscribe" /\ tPc = "done"
          /\ tOut.kind = "returned") =>
          tReported = tReq.taskId

\* C18 witness: two sends without a taskId; the second, a subscribe, has
\* reported its generated id.
C18_Witness ==
    /\ Len(taskIds) = 2
    /\ tCall = CallArgs("a2a_send_task_subscribe", Undefined, "")
    /\ tPc = "done"
    /\ tOut.kind = "returned"
    /\ tReported = taskIds[2]
    /\ taskIds[1] # taskIds[2]

\* The endpoints whose start-up probe succeeded, in configured order.
Reachable == SelectSeq([i \in 1..Len(probeOk) |-> [id |-> endpoints[i].id, ok |-> probeOk[i]]],
                       LAMBDA e : e.ok)
\* new Error("No available agent")
NoAvailableAgent == Err("Error", "No available agent", 0, 0, <<>>)

C22_AgentCardResource ==
    (/\ tCall.tool = "resources/read"
     /\ tPc = "done"
     /\ IsAgentCardUri(tUri)
     /\ tUri[4] \in Live) =>
        /\ cAgent = tUri[4]
        /\ tSent >= 1
        /\ tOut \notin {Threw(e) : e \in RoutingErrors \cup {RoutingError("resources/read", UriAgentId(tUri))}}
        /\ cOut.kind = "returned" => tOut = cOut

\* The entries of the results array while and after the loop of
\* a2a_agent_info runs.
InfoEntries ==
    (tCall.tool = "a2a_agent_info" /\ Falsy(tCall.agentId) /\ tPc \in {"card", "done"}) =>
        /\ Len(results) <= Len(clients)
        /\ \A i \in 1..Len(results) : results[i].agentId = clients[i]
        /\ tPc = "card" => infoIdx = Len(results) + 1 /\ cAgent = clients[infoIdx]
        /\ tPc = "done" =>
              /\ tOut = Returned("results")
              /\ Len(results) = Len(clients)
              /\ tSent >= Len(clients)

\* C23: a2a_agent_info without an agentId answers with one entry for each
\* client of the live set, in insertion order; an entry holds the
\* descriptor when that agent's descriptor was fetched and the error
\* message when it was not; a failed fetch neither fails the call nor
\* keeps the later agents from being asked.
C23_PerAgentFailures ==
    /\ []InfoEntries
    /\ [][(tCall.tool = "a2a_agent_info" /\ results' # results /\ results' # <<>>) =>
             results' = Append(results, [agentId |-> cAgent, ok |-> Fetched # <<>>])]_vars

\* C23 witness: two live agents; the descriptor of the first could not be
\* fetched, the second was asked all the same, and the call returned both
\* entries.
C23_Witness ==
    /\ tCall.tool = "a2a_agent_info"
    /\ Falsy(tCall.agentId)
    /\ tPc = "done"
    /\ Len(clients) = 2
    /\ results = <<[agentId |-> clients[1], ok |-> FALSE],
                   [agentId |-> clients[2], ok |-> TRUE]>>
    /\ tOut = Returned("results")

\* C24: every failure of agentCard (a network error, a non-success status
\* on the fallback path, a success status with a body that is not JSON on
\* either path) reaches the caller as the wrapped error "Could not
\* retrieve agent card"; no other error leaves agentCard.
C24_CardFailureWrapped ==
    (cPc = "done" /\ cOut.kind = "threw") => cOut = Threw(CardError)

\* C25: the base URL a client stores does not end with a slash, whatever
\* URL string the constructor was given (also one that ends in several
\* slashes), and a URL that does not end with a slash is stored
\* unchanged.
C25_BaseUrlNormalized ==
    kPc = "constructed" =>
        /\ ~EndsWithSlash(baseUrl)
        /\ ~EndsWithSlash(ctorArg) => baseUrl = ctorArg

\* C26: no tool call and no resource read is handled while initialize is
\* in progress: whenever a request is being handled or was handled,
\* initialize has completed, every endpoint was probed, and the live
\* client set is the final one (no step taken while or after a request is
\* handled changes it).
C26_NoRequestDuringInitialize ==
    /\ []((tPc # "idle" \/ toolCalls > 0) =>
            /\ Serving
            /\ Len(probeOk) = Len(endpoints)
            /\ cFor # "initialize")
    /\ [][(tPc # "idle" \/ toolCalls > 0 \/ tPc' # "idle") =>
             clients' = clients /\ rPc' = rPc]_vars

\* C26 witness: two endpoints were probed, the second failed, and the
\* first request is being handled after that.
C26_Witness ==
    /\ Serving
    /\ probeOk = <<TRUE, FALSE>>
    /\ toolCalls = 1
    /\ tPc = "sent"
    /\ tReq.agent = endpoints[1].id

\* A probe of initialize is waiting for a response.
ProbeOpen == cFor = "initialize" /\ cPc \in {"wellknown", "fallback"}

\* The loop of initialize is at the endpoint after those already probed.
ProbeOrder ==
    /\ Len(probeOk) = probeIdx - 1
    /\ probeIdx <= Len(endpoints) + 1
    /\ cFor = "initialize" =>
          /\ rPc = "init"
          /\ probeIdx <= Len(endpoints)
          /\ cAgent = endpoints[probeIdx].id
    /\ Serving => probeIdx = Len(endpoints) + 1
\* The loop moves on by one endpoint, and only when the probe has come
\* back; while a probe is waiting nothing else of initialize happens.
ProbeSteps ==
    /\ probeIdx' # probeIdx =>
          cFor = "initialize" /\ cPc = "done" /\ probeIdx' = probeIdx + 1
    /\ ProbeOpen =>
          probeIdx' = probeIdx /\ probeOk' = probeOk /\ rPc' = "init"

\* C27: initialize probes the endpoints one at a time in configured order
\* (the probe in progress is that of the endpoint after those already
\* probed, and the loop moves on only when that probe has come back), it
\* completes in the end when every request of a probe is answered or
\* fails, and while a probe is waiting no later endpoint is probed and
\* initialize does not complete.
C27_InitializeSequentialAndTerminates ==
    /\ <>Serving
    /\ []ProbeOrder
    /\ [][ProbeSteps]_vars

\* C27 witness: initialize has completed for two endpoints after the
\* probe of the first failed on both paths.
C27_Witness ==
    /\ Serving
    /\ Len(endpoints) = 2
    /\ probeOk = <<FALSE, TRUE>>
    /\ probeIdx = 3
    /\ toolCalls = 0

\* C28: two streaming calls consumed at the same time are independent:
\* under every interleaving of their chunk arrivals, what a call has
\* yielded is a prefix of what it yields alone, a call that has ended has
\* yielded exactly that sequence and ended the same way, and each call
\* acquired and released its own reader once.
C28_ConcurrentCallsIndependent ==
    \A k \in CallIds :
        LET c == calls[k]
        IN  /\ IsPrefix(c.out, WholeBodyYields(c.stream))
            /\ c.released <= c.acquired /\ c.acquired <= 1
            /\ c.pc = "closed" =>
                  /\ c.out = WholeBodyYields(c.stream)
                  /\ c.end = WholeBodyEnd(c.stream)
                  /\ c.acquired = 1
                  /\ c.released = 1

\* C28 witness: both calls are between two chunks in the middle of a
\* frame, each with its own trailing fragment in its buffer, one of them a
\* result frame cut inside its blank line and the other a frame ended by
\* CR LF CR LF.
C28_Witness ==
    /\ calls[1].pc = "read"
    /\ calls[2].pc = "read"
    /\ calls[1].stream = Frame(<<"R1">>, LF2)
    /\ calls[2].stream = Frame(<<"RF">>, CRLF2)
    /\ calls[1].pos = Len(calls[1].stream) - 1
    /\ calls[2].pos = 3
    /\ buffers[1] = DataPrefix \o <<"R1", "\n">>
    /\ buffers[2] = <<"d", "a", "t">>
====
